---- MODULE Spec2Model ----
(***************************************************************************)
(* A model of the decoding layer of rust-mpd: the text conversions         *)
(* (Range::from_str, AudioFormat::from_str), the From-Map decoder of       *)
(* Output, the From-Sequential-Pairs decoders of Song and Status, and the  *)
(* Idle/Active controller.                                                 *)
(*                                                                         *)
(* Text is modelled as a sequence of one-character strings, so that        *)
(* splitting and parsing are computed character by character as the code   *)
(* does.  Option<T> is a sequence of length 0 (None) or 1 (Some(v)).       *)
(* Result<T, E> is a record [tag, val] with tag "Ok" or "Err".             *)
(* Duration is an integer number of milliseconds.                          *)
(***************************************************************************)
EXTENDS Integers, Sequences, FiniteSets, TLC

VARIABLES
    op,       \* the operation under way: "Range", "Audio", "Output", "Song", "Status", "Idle"
    pc,       \* position in the operation: "call", "loop", "done"
    s,        \* the text handed to from_str
    map,      \* the key -> value map handed to from_map
    input,    \* the whole item sequence handed to from_iter
    iter,     \* the items of the iterator not yet consumed
    result,   \* the entity being assembled by from_iter (`result` in the code)
    ret,      \* what the operation returned
    ctl       \* the Idle/Active controller of the connection

vars == <<op, pc, s, map, input, iter, result, ret, ctl>>

----------------------------------------------------------------------------
(* Bounds of the model *)

\* the largest number of separator-delimited components of a from_str input
MaxParts == 4
\* the largest number of items of a response made of queue-placement keys
MaxPlacePairs == 4
\* the largest number of items of any other response
MaxPairs == 3
\* the largest number of items of a response drawn from every field
MaxFieldPairs == 2
\* the largest number of commands issued on the connection
MaxCommands == 5

----------------------------------------------------------------------------
(* Option, Result, Duration, errors *)

None == <<>>
Some(v) == <<v>>
IsSome(o) == Len(o) = 1

Ok(v) == [tag |-> "Ok", val |-> v]
Err(e) == [tag |-> "Err", val |-> e]
IsOk(r) == r.tag = "Ok"
IsErr(r) == r.tag = "Err"
\* nothing returned yet
NoRet == [tag |-> "None", val |-> [none |-> TRUE]]

\* Duration::seconds, Duration::milliseconds, Duration::zero
Seconds(n) == n * 1000
Milliseconds(n) == n
Zero == 0

\* Error::Parse(ParseError::<what>(<arg>)); arg is the offending text where
\* the variant carries it
ParseError(what, arg) == [kind |-> "Parse", what |-> what, arg |-> arg]
\* Error::Proto(ProtoError::<what>(<arg>))
ProtoError(what, arg) == [kind |-> "Proto", what |-> what, arg |-> arg]
\* Error::Server(ServerError): a decoded ACK line
ServerError == [kind |-> "Server", what |-> "Ack", arg |-> <<>>]

----------------------------------------------------------------------------
(* Text: characters, splitting, joining, integer parsing and formatting *)

Digits == <<"0", "1", "2", "3", "4", "5", "6", "7", "8", "9">>
IsDigit(c) == \E i \in 1..10 : Digits[i] = c
DigitVal(c) == (CHOOSE i \in 1..10 : Digits[i] = c) - 1

\* str::split(sep): the parts between the separators; "" splits to one
\* empty part
RECURSIVE Split(_, _)
Split(str, sep) ==
    IF \E i \in 1..Len(str) : str[i] = sep
    THEN LET i == CHOOSE k \in 1..Len(str) :
                      str[k] = sep /\ \A j \in 1..(k - 1) : str[j] # sep
         IN  <<SubSeq(str, 1, i - 1)>> \o Split(SubSeq(str, i + 1, Len(str)), sep)
    ELSE <<str>>

\* str::splitn(2, sep): split at the first separator only
SplitN2(str, sep) ==
    IF \E i \in 1..Len(str) : str[i] = sep
    THEN LET i == CHOOSE k \in 1..Len(str) :
                      str[k] = sep /\ \A j \in 1..(k - 1) : str[j] # sep
         IN  <<SubSeq(str, 1, i - 1), SubSeq(str, i + 1, Len(str))>>
    ELSE <<str>>

\* the parts joined by sep (the inverse of Split on parts free of sep)
RECURSIVE Join(_, _)
Join(parts, sep) ==
    IF Len(parts) = 0 THEN <<>>
    ELSE IF Len(parts) = 1 THEN parts[1]
    ELSE parts[1] \o <<sep>> \o Join(Tail(parts), sep)

\* the value of a sequence of decimal digits
RECURSIVE DigitsVal(_)
DigitsVal(ds) ==
    IF Len(ds) = 0 THEN 0
    ELSE DigitsVal(SubSeq(ds, 1, Len(ds) - 1)) * 10 + DigitVal(ds[Len(ds)])

\* decimal formatting of a natural number (Display for integers)
RECURSIVE Dec(_)
Dec(n) == IF n < 10 THEN <<Digits[n + 1]>> ELSE Dec(n \div 10) \o <<Digits[(n % 10) + 1]>>

\* <integer type>::from_str: an optional '+' (and, for a signed type, '-')
\* followed by at least one digit and nothing else, the value within
\* lo..hi.  [ok, v]: ok = FALSE models Err(ParseIntError).
ParseInt(str, signed, lo, hi) ==
    LET neg == signed /\ Len(str) > 0 /\ str[1] = "-"
        ds  == IF Len(str) > 0 /\ (str[1] = "+" \/ neg) THEN Tail(str) ELSE str
        ok  == Len(ds) > 0 /\ \A i \in 1..Len(ds) : IsDigit(ds[i])
        v   == IF ok THEN (IF neg THEN 0 - DigitsVal(ds) ELSE DigitsVal(ds)) ELSE 0
    IN  IF ok /\ v >= lo /\ v <= hi THEN [ok |-> TRUE, v |-> v] ELSE [ok |-> FALSE, v |-> 0]

\* The texts of the model have at most 4 digits, so a u32 or an i64 never
\* overflows; the bound of these two is the largest value a text can have.
MaxTextVal == 99999
ParseU8(str) == ParseInt(str, FALSE, 0, 255)
ParseI8(str) == ParseInt(str, TRUE, 0 - 128, 127)
ParseU32(str) == ParseInt(str, FALSE, 0, MaxTextVal)
ParseI64(str) == ParseInt(str, TRUE, 0 - MaxTextVal, MaxTextVal)

\* all sequences over S of a length in lo..hi
SeqsOf(S, lo, hi) == UNION {[1..n -> S] : n \in lo..hi}

----------------------------------------------------------------------------
(* Range::from_str (song.rs) *)

Range(start, end) == [start |-> start, end |-> end]

ParsedOk(r) == r.ok

\* flat_map(|v| v.parse().into_iter()) keeps the parts that parse and drops
\* the others; the match then looks at the first two items that are left.
RangeFromStr(str) ==
    LET parts  == Split(str, "-")
        parsed == [i \in 1..Len(parts) |-> ParseI64(parts[i])]
        splits == SelectSeq(parsed, ParsedOk)
        first  == IF Len(splits) >= 1 THEN Some(splits[1].v) ELSE None
        second == IF Len(splits) >= 2 THEN Some(splits[2].v) ELSE None
    IN  CASE IsSome(first) /\ IsSome(second) ->
                 Ok(Range(Seconds(first[1]), Some(Seconds(second[1]))))
          [] ~IsSome(first) /\ IsSome(second) ->
                 Ok(Range(Zero, Some(Seconds(second[1]))))
          [] IsSome(first) /\ ~IsSome(second) ->
                 Ok(Range(Seconds(first[1]), None))
          [] OTHER -> Ok(Range(Zero, None))

----------------------------------------------------------------------------
(* AudioFormat::from_str (status.rs) *)

AudioFormat(rate, bits, chans) == [rate |-> rate, bits |-> bits, chans |-> chans]

\* AudioFormat::from_str without the special case for "f" in the bits
\* position
AudioFromStrNoFloat(str) ==
    LET it    == Split(str, ":")
        rate  == IF Len(it) < 1 THEN Err(ParseError("NoRate", <<>>))
                 ELSE IF ParseU32(it[1]).ok THEN Ok(ParseU32(it[1]).v)
                 ELSE Err(ParseError("BadRate", <<>>))
        bits  == IF Len(it) < 2 THEN Err(ParseError("NoBits", <<>>))
                 ELSE IF ParseU8(it[2]).ok THEN Ok(ParseU8(it[2]).v)
                 ELSE Err(ParseError("BadBits", <<>>))
        chans == IF Len(it) < 3 THEN Err(ParseError("NoChans", <<>>))
                 ELSE IF ParseU8(it[3]).ok THEN Ok(ParseU8(it[3]).v)
                 ELSE Err(ParseError("BadChans", <<>>))
    IN  IF IsErr(rate) THEN rate
        ELSE IF IsErr(bits) THEN bits
        ELSE IF IsErr(chans) THEN chans
        ELSE Ok(AudioFormat(rate.val, bits.val, chans.val))

AudioFromStr(str) ==
    LET it    == Split(str, ":")
        rate  == IF Len(it) < 1 THEN Err(ParseError("NoRate", <<>>))
                 ELSE IF ParseU32(it[1]).ok THEN Ok(ParseU32(it[1]).v)
                 ELSE Err(ParseError("BadRate", <<>>))
        bits  == IF Len(it) < 2 THEN Err(ParseError("NoBits", <<>>))
                 ELSE IF it[2] = <<"f">> THEN Ok(0)
                 ELSE IF ParseU8(it[2]).ok THEN Ok(ParseU8(it[2]).v)
                 ELSE Err(ParseError("BadBits", <<>>))
        chans == IF Len(it) < 3 THEN Err(ParseError("NoChans", <<>>))
                 ELSE IF ParseU8(it[3]).ok THEN Ok(ParseU8(it[3]).v)
                 ELSE Err(ParseError("BadChans", <<>>))
    IN  IF IsErr(rate) THEN rate
        ELSE IF IsErr(bits) THEN bits
        ELSE IF IsErr(chans) THEN chans
        ELSE Ok(AudioFormat(rate.val, bits.val, chans.val))

----------------------------------------------------------------------------
(* The from_str operations as a state machine: a text is chosen, then parsed *)

\* components of the Range texts and of the AudioFormat texts of the model
RangeParts == {<<>>, <<"0">>, <<"7">>, <<"1", "0">>, <<"2", "0">>, <<"x">>, <<"+", "3">>}
AudioParts == {<<>>, <<"0">>, <<"2">>, <<"1", "6">>, <<"2", "5", "5">>, <<"2", "5", "6">>,
               <<"4", "4", "1">>, <<"f">>, <<"x">>, <<"+", "6">>}

RangeTexts == {Join(p, "-") : p \in SeqsOf(RangeParts, 1, MaxParts)}
AudioTexts == {Join(p, ":") : p \in SeqsOf(AudioParts, 1, MaxParts)}

NoResult == [none |-> TRUE]
EmptyMap == <<>>
\* the controller at rest: Active, nothing issued yet
CtlStart == [state |-> "Active", last |-> "none", n |-> 0]

InitFromStr ==
    /\ op \in {"Range", "Audio"}
    /\ s \in (IF op = "Range" THEN RangeTexts ELSE AudioTexts)
    /\ pc = "call"
    /\ map = EmptyMap
    /\ input = <<>>
    /\ iter = <<>>
    /\ result = NoResult
    /\ ret = NoRet
    /\ ctl = CtlStart

\* "text".parse::<Range>()
RangeParse ==
    /\ op = "Range"
    /\ pc = "call"
    /\ ret' = RangeFromStr(s)
    /\ pc' = "done"
    /\ UNCHANGED <<ctl, op, s, map, input, iter, result>>

\* "text".parse::<AudioFormat>()
AudioParse ==
    /\ op = "Audio"
    /\ pc = "call"
    /\ ret' = AudioFromStr(s)
    /\ pc' = "done"
    /\ UNCHANGED <<ctl, op, s, map, input, iter, result>>

NextFromStr == RangeParse \/ AudioParse

SpecFromStr == InitFromStr /\ [][NextFromStr]_vars

----------------------------------------------------------------------------
(* Claims about the text conversions, checked under SpecFromStr *)

\* the numbers the claims about from_str quantify over
TextNums == 0..30
\* a rate, and a bit depth or channel count, that are in range
RateNums == {0, 2, 16, 255, 256, 441}
ByteNums == {0, 2, 16, 255}

\* the number of separators in a text: it has one component more
CountSep(str, sep) == Cardinality({i \in 1..Len(str) : str[i] = sep})

\* a decimal numeral: digits, with an optional leading plus sign
IsNumeral(str) ==
    LET ds == IF Len(str) > 0 /\ str[1] = "+" THEN Tail(str) ELSE str
    IN  Len(ds) > 0 /\ \A i \in 1..Len(ds) : IsDigit(ds[i])

\* C2 (as stated): Range::from_str follows "<start>-<end>" with either side
\* optional: "s-e" gives (s, Some(e)), "-e" gives (0, Some(e)), "s-" gives
\* (s, None) and "" gives (0, None).
C2_RangeGrammar ==
    (op = "Range" /\ pc = "done") =>
        /\ \A a \in TextNums, b \in TextNums :
               s = Dec(a) \o <<"-">> \o Dec(b)
                   => ret = Ok(Range(Seconds(a), Some(Seconds(b))))
        /\ \A b \in TextNums :
               s = <<"-">> \o Dec(b) => ret = Ok(Range(Zero, Some(Seconds(b))))
        /\ \A a \in TextNums :
               s = Dec(a) \o <<"-">> => ret = Ok(Range(Seconds(a), None))
        /\ s = <<>> => ret = Ok(Range(Zero, None))

\* C3: AudioFormat::from_str parses "<rate>:<bits>:<channels>": "r:b:c" gives
\* {r, b, c}, "r:f:c" gives {r, 0, c}; a text with fewer than three
\* components, or with a rate, bits (other than f) or channels that is no
\* numeral, gives a parse error.
C3_AudioFormatParse ==
    (op = "Audio" /\ pc = "done") =>
        /\ \A r \in RateNums, b \in ByteNums, c \in ByteNums :
               s = Join(<<Dec(r), Dec(b), Dec(c)>>, ":")
                   => ret = Ok(AudioFormat(r, b, c))
        /\ \A r \in RateNums, c \in ByteNums :
               s = Join(<<Dec(r), <<"f">>, Dec(c)>>, ":")
                   => ret = Ok(AudioFormat(r, 0, c))
        /\ CountSep(s, ":") < 2 => (IsErr(ret) /\ ret.val.kind = "Parse")
        /\ (CountSep(s, ":") >= 2 /\
            (\/ ~IsNumeral(Split(s, ":")[1])
             \/ (~IsNumeral(Split(s, ":")[2]) /\ Split(s, ":")[2] # <<"f">>)
             \/ ~IsNumeral(Split(s, ":")[3])))
               => (IsErr(ret) /\ ret.val.kind = "Parse")

\* "441:f:2" has been parsed to {rate 441, bits 0, chans 2}
C3_Witness ==
    /\ op = "Audio"
    /\ pc = "done"
    /\ s = <<"4", "4", "1", ":", "f", ":", "2">>
    /\ ret = Ok(AudioFormat(441, 0, 2))

----------------------------------------------------------------------------
(* Output::from_map (output.rs) *)

\* get_field!(map, name): the value of a required key, parsed to a number.
\* An absent key is the missing-field error naming it; a value that does not
\* convert is the bad-value error naming the key and the raw value.
GetField(m, name) ==
    IF name \notin DOMAIN m THEN Err(ProtoError("NoField", <<name>>))
    ELSE IF ParseU32(m[name]).ok THEN Ok([v |-> ParseU32(m[name]).v])
    ELSE Err(ParseError("BadValue", <<name>> \o m[name]))

\* get_field!(map, bool name): the value of a required flag, which the wire
\* format gives as 0 or 1.
GetFieldBool(m, name) ==
    IF name \notin DOMAIN m THEN Err(ProtoError("NoField", <<name>>))
    ELSE IF m[name] = <<"1">> THEN Ok([v |-> TRUE])
    ELSE IF m[name] = <<"0">> THEN Ok([v |-> FALSE])
    ELSE Err(ParseError("BadValue", <<name>> \o m[name]))

Output(id, name, enabled) == [id |-> id, name |-> name, enabled |-> enabled]

\* Output::from_map with an absent outputname taken as the empty name
OutputFromMapDefaultName(m) ==
    LET id      == GetField(m, "outputid")
        name    == IF "outputname" \in DOMAIN m THEN Ok([v |-> m["outputname"]])
                   ELSE Ok([v |-> <<>>])
        enabled == GetFieldBool(m, "outputenabled")
    IN  IF IsErr(id) THEN id
        ELSE IF IsErr(name) THEN name
        ELSE IF IsErr(enabled) THEN enabled
        ELSE Ok(Output(id.val.v, name.val.v, enabled.val.v))

\* the fields are evaluated in the order id, name, enabled, and the first
\* failure is returned
OutputFromMap(m) ==
    LET id      == GetField(m, "outputid")
        name    == IF "outputname" \in DOMAIN m THEN Ok([v |-> m["outputname"]])
                   ELSE Err(ProtoError("NoField", <<"outputname">>))
        enabled == GetFieldBool(m, "outputenabled")
    IN  IF IsErr(id) THEN id
        ELSE IF IsErr(name) THEN name
        ELSE IF IsErr(enabled) THEN enabled
        ELSE Ok(Output(id.val.v, name.val.v, enabled.val.v))

\* the keys of the maps of the model and the values each can have
OutputKeys == {"outputid", "outputname", "outputenabled", "plugin"}
OutputValues(k) ==
    CASE k = "outputid" -> {<<"0">>, <<"7">>, <<"1", "2">>, <<"x">>, <<>>}
      [] k = "outputname" -> {<<"a">>, <<"b", " ", "c">>, <<>>}
      [] k = "outputenabled" -> {<<"0">>, <<"1">>, <<"y">>}
      [] OTHER -> {<<"a", "l", "s", "a">>}

\* every map from some of the keys to one of the key's values
OutputMaps ==
    UNION {{m \in [K -> UNION {OutputValues(k) : k \in K}] :
               \A k \in K : m[k] \in OutputValues(k)} : K \in SUBSET OutputKeys}

InitOutput ==
    /\ op = "Output"
    /\ map \in OutputMaps
    /\ pc = "call"
    /\ s = <<>>
    /\ input = <<>>
    /\ iter = <<>>
    /\ result = NoResult
    /\ ret = NoRet
    /\ ctl = CtlStart

\* Output::from_map(map)
OutputDecode ==
    /\ op = "Output"
    /\ pc = "call"
    /\ ret' = OutputFromMap(map)
    /\ pc' = "done"
    /\ UNCHANGED <<ctl, op, s, map, input, iter, result>>

NextOutput == OutputDecode

SpecOutput == InitOutput /\ [][NextOutput]_vars

(* Claims about Output::from_map, checked under SpecOutput *)

RequiredOutputKeys == {"outputid", "outputname", "outputenabled"}

\* the value of a required key is present and well-formed
OutputWellFormed(m, k) ==
    /\ k \in DOMAIN m
    /\ k = "outputid" => IsNumeral(m[k])
    /\ k = "outputenabled" => m[k] \in {<<"0">>, <<"1">>}

\* C4: on a map with well-formed outputid, outputname and outputenabled,
\* Output::from_map returns the Output with the decoded values; if one of the
\* three is absent it returns the missing-field error naming that key.
C4_OutputFromMap ==
    (op = "Output" /\ pc = "done") =>
        /\ (\A k \in RequiredOutputKeys : OutputWellFormed(map, k)) =>
               /\ IsOk(ret)
               /\ \A n \in TextNums : map["outputid"] = Dec(n) => ret.val.id = n
               /\ ret.val.name = map["outputname"]
               /\ ret.val.enabled = (map["outputenabled"] = <<"1">>)
        /\ \A k \in RequiredOutputKeys :
               (/\ k \notin DOMAIN map
                /\ \A j \in RequiredOutputKeys \ {k} : OutputWellFormed(map, j))
                   => ret = Err(ProtoError("NoField", <<k>>))

\* a map without outputname, the other two well-formed, has been decoded to
\* the missing-field error naming outputname
C4_Witness ==
    /\ op = "Output"
    /\ pc = "done"
    /\ "outputname" \notin DOMAIN map
    /\ OutputWellFormed(map, "outputid")
    /\ OutputWellFormed(map, "outputenabled")
    /\ ret = Err(ProtoError("NoField", <<"outputname">>))

----------------------------------------------------------------------------
(* The items of a response: what the iterator handed to from_iter yields *)

NoErr == [kind |-> "None", what |-> "", arg |-> <<>>]
\* Ok((key, value)): one line pair
Pair(k, v) == [ok |-> TRUE, key |-> k, val |-> v, err |-> NoErr]
\* Err(e): the response's ACK error, or a protocol or connectivity error
ErrItem(e) == [ok |-> FALSE, key |-> "", val |-> <<>>, err |-> e]

\* try!(line.1.parse()) on an integer: the From conversions wrap
\* ParseIntError into Error::Parse(ParseError::BadInteger)
BadInteger == Err(ParseError("BadInteger", <<>>))

----------------------------------------------------------------------------
(* Queue placement: the Id / Pos / Prio arms of Song::from_iter and the
   songid / song / nextsongid / nextsong arms of Status::from_iter *)

QueuePlace(id, pos, prio) == [id |-> id, pos |-> pos, prio |-> prio]

\* the "Id" arm with a placement that starts afresh on every sub-field
PlaceWithIdReset(place, text) ==
    IF ~ParseU32(text).ok THEN BadInteger
    ELSE Ok([place |-> Some(QueuePlace(ParseU32(text).v, 0, 0))])

\* match place { None => Some(QueuePlace { id, pos: 0, prio: 0 }),
\*               Some(ref mut place) => place.id = id }
PlaceWithId(place, text) ==
    IF ~ParseU32(text).ok THEN BadInteger
    ELSE IF ~IsSome(place)
         THEN Ok([place |-> Some(QueuePlace(ParseU32(text).v, 0, 0))])
         ELSE Ok([place |-> Some([place[1] EXCEPT !.id = ParseU32(text).v])])

PlaceWithPos(place, text) ==
    IF ~ParseU32(text).ok THEN BadInteger
    ELSE IF ~IsSome(place)
         THEN Ok([place |-> Some(QueuePlace(0, ParseU32(text).v, 0))])
         ELSE Ok([place |-> Some([place[1] EXCEPT !.pos = ParseU32(text).v])])

PlaceWithPrio(place, text) ==
    IF ~ParseU8(text).ok THEN BadInteger
    ELSE IF ~IsSome(place)
         THEN Ok([place |-> Some(QueuePlace(0, 0, ParseU8(text).v))])
         ELSE Ok([place |-> Some([place[1] EXCEPT !.prio = ParseU8(text).v])])

----------------------------------------------------------------------------
(* Song::from_iter (song.rs) *)

NoTm == [year |-> 0, mon |-> 0, mday |-> 0, hour |-> 0, min |-> 0, sec |-> 0]

\* strptime(text, "%Y-%m-%dT%H:%M:%S%Z") of the time crate: four digits of
\* year, two each of month, day, hour, minute and second between the
\* literal separators, each within its range; %Z takes what follows.
Strptime(text) ==
    LET dig(i, j) == \A k \in i..j : IsDigit(text[k])
        num(i, j) == DigitsVal(SubSeq(text, i, j))
        shape == /\ Len(text) >= 19
                 /\ dig(1, 4) /\ text[5] = "-" /\ dig(6, 7) /\ text[8] = "-"
                 /\ dig(9, 10) /\ text[11] = "T" /\ dig(12, 13) /\ text[14] = ":"
                 /\ dig(15, 16) /\ text[17] = ":" /\ dig(18, 19)
        tm == [year |-> num(1, 4), mon |-> num(6, 7), mday |-> num(9, 10),
               hour |-> num(12, 13), min |-> num(15, 16), sec |-> num(18, 19)]
    IN  IF /\ shape
           /\ tm.mon \in 1..12 /\ tm.mday \in 1..31
           /\ tm.hour \in 0..23 /\ tm.min \in 0..59 /\ tm.sec \in 0..60
        THEN [ok |-> TRUE, tm |-> tm]
        ELSE [ok |-> FALSE, tm |-> NoTm]

\* Song::default()
SongDefault ==
    [file |-> <<>>, name |-> None, title |-> None, last_mod |-> None,
     duration |-> None, place |-> None, range |-> None, tags |-> EmptyMap]

\* BTreeMap::insert
MapInsert(m, k, v) == [x \in (DOMAIN m) \cup {k} |-> IF x = k THEN v ELSE m[x]]

\* the body of the loop of Song::from_iter with the unrecognized keys
\* dropped instead of inserted into tags
SongStepDropTags(r, line) ==
    CASE line.key = "file" -> Ok([r EXCEPT !.file = line.val])
      [] line.key = "Title" -> Ok([r EXCEPT !.title = Some(line.val)])
      [] line.key = "Last-Modified" ->
             IF Strptime(line.val).ok
             THEN Ok([r EXCEPT !.last_mod = Some(Strptime(line.val).tm)])
             ELSE Err(ParseError("BadTime", <<>>))
      [] line.key = "Name" -> Ok([r EXCEPT !.name = Some(line.val)])
      [] line.key = "Time" ->
             IF ParseI64(line.val).ok
             THEN Ok([r EXCEPT !.duration = Some(Seconds(ParseI64(line.val).v))])
             ELSE BadInteger
      [] line.key = "Range" ->
             IF IsOk(RangeFromStr(line.val))
             THEN Ok([r EXCEPT !.range = Some(RangeFromStr(line.val).val)])
             ELSE RangeFromStr(line.val)
      [] line.key = "Id" ->
             IF IsOk(PlaceWithId(r.place, line.val))
             THEN Ok([r EXCEPT !.place = PlaceWithId(r.place, line.val).val.place])
             ELSE PlaceWithId(r.place, line.val)
      [] line.key = "Pos" ->
             IF IsOk(PlaceWithPos(r.place, line.val))
             THEN Ok([r EXCEPT !.place = PlaceWithPos(r.place, line.val).val.place])
             ELSE PlaceWithPos(r.place, line.val)
      [] line.key = "Prio" ->
             IF IsOk(PlaceWithPrio(r.place, line.val))
             THEN Ok([r EXCEPT !.place = PlaceWithPrio(r.place, line.val).val.place])
             ELSE PlaceWithPrio(r.place, line.val)
      [] OTHER -> Ok(r)

\* the body of the loop of Song::from_iter: the match on the key of one
\* line.  Ok(result) with the line merged in, or the Err that try! returns.
SongStep(r, line) ==
    CASE line.key = "file" -> Ok([r EXCEPT !.file = line.val])
      [] line.key = "Title" -> Ok([r EXCEPT !.title = Some(line.val)])
      [] line.key = "Last-Modified" ->
             IF Strptime(line.val).ok
             THEN Ok([r EXCEPT !.last_mod = Some(Strptime(line.val).tm)])
             ELSE Err(ParseError("BadTime", <<>>))
      [] line.key = "Name" -> Ok([r EXCEPT !.name = Some(line.val)])
      [] line.key = "Time" ->
             IF ParseI64(line.val).ok
             THEN Ok([r EXCEPT !.duration = Some(Seconds(ParseI64(line.val).v))])
             ELSE BadInteger
      [] line.key = "Range" ->
             IF IsOk(RangeFromStr(line.val))
             THEN Ok([r EXCEPT !.range = Some(RangeFromStr(line.val).val)])
             ELSE RangeFromStr(line.val)
      [] line.key = "Id" ->
             IF IsOk(PlaceWithId(r.place, line.val))
             THEN Ok([r EXCEPT !.place = PlaceWithId(r.place, line.val).val.place])
             ELSE PlaceWithId(r.place, line.val)
      [] line.key = "Pos" ->
             IF IsOk(PlaceWithPos(r.place, line.val))
             THEN Ok([r EXCEPT !.place = PlaceWithPos(r.place, line.val).val.place])
             ELSE PlaceWithPos(r.place, line.val)
      [] line.key = "Prio" ->
             IF IsOk(PlaceWithPrio(r.place, line.val))
             THEN Ok([r EXCEPT !.place = PlaceWithPrio(r.place, line.val).val.place])
             ELSE PlaceWithPrio(r.place, line.val)
      [] OTHER -> Ok([r EXCEPT !.tags = MapInsert(r.tags, line.key, line.val)])

\* one turn of the loop with an error item taken as the end of the
\* response: the entity assembled so far is returned
SongNextItemStopAtError ==
    /\ op = "Song"
    /\ pc = "loop"
    /\ iter # <<>>
    /\ iter' = Tail(iter)
    /\ IF ~Head(iter).ok
       THEN /\ ret' = Ok(result)
            /\ pc' = "done"
            /\ UNCHANGED result
       ELSE IF IsErr(SongStep(result, Head(iter)))
            THEN /\ ret' = SongStep(result, Head(iter))
                 /\ pc' = "done"
                 /\ UNCHANGED result
            ELSE /\ result' = SongStep(result, Head(iter)).val
                 /\ UNCHANGED <<ret, pc>>
    /\ UNCHANGED <<ctl, op, s, map, input>>

\* one turn of `for res in iter`: the next item is taken; an error item, or
\* a line that fails to convert, is returned at once
SongNextItem ==
    /\ op = "Song"
    /\ pc = "loop"
    /\ iter # <<>>
    /\ iter' = Tail(iter)
    /\ IF ~Head(iter).ok
       THEN /\ ret' = Err(Head(iter).err)
            /\ pc' = "done"
            /\ UNCHANGED result
       ELSE IF IsErr(SongStep(result, Head(iter)))
            THEN /\ ret' = SongStep(result, Head(iter))
                 /\ pc' = "done"
                 /\ UNCHANGED result
            ELSE /\ result' = SongStep(result, Head(iter)).val
                 /\ UNCHANGED <<ret, pc>>
    /\ UNCHANGED <<ctl, op, s, map, input>>

\* the iterator is exhausted: Ok(result)
SongReturn ==
    /\ op = "Song"
    /\ pc = "loop"
    /\ iter = <<>>
    /\ ret' = Ok(result)
    /\ pc' = "done"
    /\ UNCHANGED <<ctl, op, s, map, input, iter, result>>

\* Song::from_iter as a function of the whole item sequence
RECURSIVE SongFold(_, _)
SongFold(r, items) ==
    IF items = <<>> THEN Ok(r)
    ELSE IF ~Head(items).ok THEN Err(Head(items).err)
    ELSE IF IsErr(SongStep(r, Head(items))) THEN SongStep(r, Head(items))
    ELSE SongFold(SongStep(r, Head(items)).val, Tail(items))

SongFromIter(items) == SongFold(SongDefault, items)

----------------------------------------------------------------------------
(* Status::from_iter (status.rs) *)

\* State::from_str
StateFromStr(text) ==
    CASE text = <<"s", "t", "o", "p">> -> Ok([v |-> "Stop"])
      [] text = <<"p", "l", "a", "y">> -> Ok([v |-> "Play"])
      [] text = <<"p", "a", "u", "s", "e">> -> Ok([v |-> "Pause"])
      [] OTHER -> Err(ParseError("BadState", text))

\* ReplayGain::from_str
ReplayGainFromStr(text) ==
    CASE text = <<"o", "f", "f">> -> Ok([v |-> "Off"])
      [] text = <<"t", "r", "a", "c", "k">> -> Ok([v |-> "Track"])
      [] text = <<"a", "l", "b", "u", "m">> -> Ok([v |-> "Album"])
      [] text = <<"a", "u", "t", "o">> -> Ok([v |-> "Auto"])
      [] OTHER -> Err(ParseError("BadValue", text))

\* the digits after the decimal point as thousandths, truncated
Thousandths(ds) ==
    DigitsVal(SubSeq(ds \o <<"0", "0", "0">>, 1, 3))

\* line.1.parse::<f32>() followed by (v * 1000.0) as i64: an optional sign,
\* then digits with an optional decimal point, at least one digit in all.
\* [ok, ms].  The texts of the model carry no exponent, inf or NaN, and are
\* below 16 with at most two decimals, where the f32 product is exact.
ParseF32Millis(text) ==
    LET neg  == Len(text) > 0 /\ text[1] = "-"
        body == IF Len(text) > 0 /\ text[1] \in {"+", "-"} THEN Tail(text) ELSE text
        cut  == SplitN2(body, ".")
        int  == cut[1]
        frac == IF Len(cut) = 2 THEN cut[2] ELSE <<>>
        ok   == /\ \A i \in 1..Len(int) : IsDigit(int[i])
                /\ \A i \in 1..Len(frac) : IsDigit(frac[i])
                /\ Len(int) + Len(frac) > 0
        ms   == DigitsVal(int) * 1000 + Thousandths(frac)
    IN  IF ok THEN [ok |-> TRUE, ms |-> IF neg THEN 0 - ms ELSE ms]
        ELSE [ok |-> FALSE, ms |-> 0]

\* the "time" arm: splitn(2, ':'), each part parsed to whole seconds
StatusTime(text) ==
    LET parts  == SplitN2(text, ":")
        first  == ParseI64(parts[1])
        second == IF Len(parts) = 2 THEN Some(ParseI64(parts[2])) ELSE None
    IN  IF first.ok /\ IsSome(second) /\ second[1].ok
        THEN Ok([time |-> Some(<<Seconds(first.v), Seconds(second[1].v)>>)])
        ELSE IF ~first.ok THEN BadInteger
        ELSE IF IsSome(second) /\ ~second[1].ok THEN BadInteger
        ELSE Ok([time |-> None])

\* Status::default()
StatusDefault ==
    [volume |-> 0, repeat |-> FALSE, random |-> FALSE, single |-> FALSE,
     consume |-> FALSE, queue_version |-> 0, queue_len |-> 0, state |-> "Stop",
     song |-> None, nextsong |-> None, time |-> None, elapsed |-> None,
     duration |-> None, bitrate |-> None, crossfade |-> None, mixrampdb |-> 0,
     mixrampdelay |-> None, audio |-> None, updating_db |-> None,
     error |-> None, replaygain |-> None]

\* the arms of Status::from_iter whose value is one integer
StatusIntStep(r, line) ==
    CASE line.key = "volume" ->
             IF ParseI8(line.val).ok
             THEN Ok([r EXCEPT !.volume = ParseI8(line.val).v]) ELSE BadInteger
      [] line.key = "playlist" ->
             IF ParseU32(line.val).ok
             THEN Ok([r EXCEPT !.queue_version = ParseU32(line.val).v]) ELSE BadInteger
      [] line.key = "playlistlength" ->
             IF ParseU32(line.val).ok
             THEN Ok([r EXCEPT !.queue_len = ParseU32(line.val).v]) ELSE BadInteger
      [] line.key = "duration" ->
             IF ParseI64(line.val).ok
             THEN Ok([r EXCEPT !.duration = Some(Seconds(ParseI64(line.val).v))])
             ELSE BadInteger
      [] line.key = "bitrate" ->
             IF ParseU32(line.val).ok
             THEN Ok([r EXCEPT !.bitrate = Some(ParseU32(line.val).v)]) ELSE BadInteger
      [] line.key = "xfade" ->
             IF ParseI64(line.val).ok
             THEN Ok([r EXCEPT !.crossfade = Some(Seconds(ParseI64(line.val).v))])
             ELSE BadInteger
      [] line.key = "updating_db" ->
             IF ParseU32(line.val).ok
             THEN Ok([r EXCEPT !.updating_db = Some(ParseU32(line.val).v)])
             ELSE BadInteger

StatusIntKeys ==
    {"volume", "playlist", "playlistlength", "duration", "bitrate", "xfade",
     "updating_db"}

\* the "elapsed" arm with a failure to parse returned as an error
ElapsedStepStrict(r, line) ==
    IF ParseF32Millis(line.val).ok
    THEN Ok([r EXCEPT !.elapsed = Some(Milliseconds(ParseF32Millis(line.val).ms))])
    ELSE Err(ParseError("BadFloat", <<>>))

\* the "elapsed" arm: parse::<f32>().ok().map(..), None when it fails
ElapsedStep(r, line) ==
    IF ParseF32Millis(line.val).ok
    THEN Ok([r EXCEPT !.elapsed = Some(Milliseconds(ParseF32Millis(line.val).ms))])
    ELSE Ok([r EXCEPT !.elapsed = None])

\* the last arm of the match of Status::from_iter with the error field set
\* from a key it does not know
StatusOtherStepKeep(r, line) == Ok([r EXCEPT !.error = Some(line.val)])

\* the last arm of the match of Status::from_iter: `_ => ()`
StatusOtherStep(r, line) == Ok(r)

\* the body of the loop of Status::from_iter: the match on the key of one
\* line.  Ok(result) with the line merged in, or the Err that try! returns.
StatusStep(r, line) ==
    CASE line.key \in StatusIntKeys -> StatusIntStep(r, line)
      [] line.key = "repeat" -> Ok([r EXCEPT !.repeat = (line.val = <<"1">>)])
      [] line.key = "random" -> Ok([r EXCEPT !.random = (line.val = <<"1">>)])
      [] line.key = "single" -> Ok([r EXCEPT !.single = (line.val = <<"1">>)])
      [] line.key = "consume" -> Ok([r EXCEPT !.consume = (line.val = <<"1">>)])
      [] line.key = "state" ->
             IF IsOk(StateFromStr(line.val))
             THEN Ok([r EXCEPT !.state = StateFromStr(line.val).val.v])
             ELSE StateFromStr(line.val)
      [] line.key = "songid" ->
             IF IsOk(PlaceWithId(r.song, line.val))
             THEN Ok([r EXCEPT !.song = PlaceWithId(r.song, line.val).val.place])
             ELSE PlaceWithId(r.song, line.val)
      [] line.key = "song" ->
             IF IsOk(PlaceWithPos(r.song, line.val))
             THEN Ok([r EXCEPT !.song = PlaceWithPos(r.song, line.val).val.place])
             ELSE PlaceWithPos(r.song, line.val)
      [] line.key = "nextsongid" ->
             IF IsOk(PlaceWithId(r.nextsong, line.val))
             THEN Ok([r EXCEPT !.nextsong = PlaceWithId(r.nextsong, line.val).val.place])
             ELSE PlaceWithId(r.nextsong, line.val)
      [] line.key = "nextsong" ->
             IF IsOk(PlaceWithPos(r.nextsong, line.val))
             THEN Ok([r EXCEPT !.nextsong = PlaceWithPos(r.nextsong, line.val).val.place])
             ELSE PlaceWithPos(r.nextsong, line.val)
      [] line.key = "time" ->
             IF IsOk(StatusTime(line.val))
             THEN Ok([r EXCEPT !.time = StatusTime(line.val).val.time])
             ELSE StatusTime(line.val)
      [] line.key = "elapsed" -> ElapsedStep(r, line)
      [] line.key = "audio" ->
             IF IsOk(AudioFromStr(line.val))
             THEN Ok([r EXCEPT !.audio = Some(AudioFromStr(line.val).val)])
             ELSE AudioFromStr(line.val)
      [] line.key = "error" -> Ok([r EXCEPT !.error = Some(line.val)])
      [] line.key = "replay_gain_mode" ->
             IF IsOk(ReplayGainFromStr(line.val))
             THEN Ok([r EXCEPT !.replaygain = Some(ReplayGainFromStr(line.val).val.v)])
             ELSE ReplayGainFromStr(line.val)
      [] OTHER -> StatusOtherStep(r, line)

\* one turn of `for res in iter`: the next item is taken; an error item, or
\* a line that fails to convert, is returned at once
StatusNextItem ==
    /\ op = "Status"
    /\ pc = "loop"
    /\ iter # <<>>
    /\ iter' = Tail(iter)
    /\ IF ~Head(iter).ok
       THEN /\ ret' = Err(Head(iter).err)
            /\ pc' = "done"
            /\ UNCHANGED result
       ELSE IF IsErr(StatusStep(result, Head(iter)))
            THEN /\ ret' = StatusStep(result, Head(iter))
                 /\ pc' = "done"
                 /\ UNCHANGED result
            ELSE /\ result' = StatusStep(result, Head(iter)).val
                 /\ UNCHANGED <<ret, pc>>
    /\ UNCHANGED <<ctl, op, s, map, input>>

\* the iterator is exhausted: Ok(result)
StatusReturn ==
    /\ op = "Status"
    /\ pc = "loop"
    /\ iter = <<>>
    /\ ret' = Ok(result)
    /\ pc' = "done"
    /\ UNCHANGED <<ctl, op, s, map, input, iter, result>>

\* Status::from_iter as a function of the whole item sequence
RECURSIVE StatusFold(_, _)
StatusFold(r, items) ==
    IF items = <<>> THEN Ok(r)
    ELSE IF ~Head(items).ok THEN Err(Head(items).err)
    ELSE IF IsErr(StatusStep(r, Head(items))) THEN StatusStep(r, Head(items))
    ELSE StatusFold(StatusStep(r, Head(items)).val, Tail(items))

StatusFromIter(items) == StatusFold(StatusDefault, items)

\* the decoders share the loop; the specifications below differ in the items
\* their responses are made of
NextSong == SongNextItem \/ SongReturn
NextStatus == StatusNextItem \/ StatusReturn
NextIter == NextSong \/ NextStatus

\* the state at the call of from_iter on the item sequence `items`
InitIter(decoder, items) ==
    /\ op = decoder
    /\ input = items
    /\ iter = items
    /\ pc = "loop"
    /\ result = (IF decoder = "Song" THEN SongDefault ELSE StatusDefault)
    /\ ret = NoRet
    /\ ctl = CtlStart
    /\ s = <<>>
    /\ map = EmptyMap

----------------------------------------------------------------------------
(* Responses made of queue-placement keys, in every order and repetition *)

SongPlaceItems ==
    {Pair("Id", <<"7">>), Pair("Id", <<"1", "2">>), Pair("Pos", <<"3">>),
     Pair("Pos", <<"0">>), Pair("Prio", <<"2">>), Pair("Prio", <<"3", "0", "0">>),
     Pair("Title", <<"a">>)}

StatusPlaceItems ==
    {Pair("songid", <<"7">>), Pair("songid", <<"1", "2">>), Pair("song", <<"3">>),
     Pair("song", <<"0">>), Pair("nextsongid", <<"8">>), Pair("nextsong", <<"4">>),
     Pair("volume", <<"5", "0">>)}

InitPlace ==
    \E decoder \in {"Song", "Status"} :
        \E items \in SeqsOf(IF decoder = "Song" THEN SongPlaceItems ELSE StatusPlaceItems,
                            0, MaxPlacePairs) :
            InitIter(decoder, items)

SpecPlace == InitPlace /\ [][NextIter]_vars

(* Claims about queue placement, checked under SpecPlace *)

\* the numbers the placement values of the claim range over
PlaceNums == {0, 2, 3, 4, 7, 8, 12}
IsPlaceNum(text) == \E n \in PlaceNums : Dec(n) = text
NumOf(text) == CHOOSE n \in PlaceNums : Dec(n) = text

\* the places of the pairs of a key in an item sequence
Occurrences(items, k) == {i \in 1..Len(items) : items[i].ok /\ items[i].key = k}
Occurs(items, k) == Occurrences(items, k) # {}
Last(I) == CHOOSE i \in I : \A j \in I : j <= i

\* the number given for a key by its last pair, 0 when the key is absent
LastNum(items, k) ==
    IF Occurs(items, k) THEN NumOf(items[Last(Occurrences(items, k))].val) ELSE 0

\* the placement that the pairs of the three keys describe, wherever they
\* stand in the sequence
MergedPlace(items, idKey, posKey, prioKey) ==
    IF Occurs(items, idKey) \/ Occurs(items, posKey) \/ Occurs(items, prioKey)
    THEN Some(QueuePlace(LastNum(items, idKey), LastNum(items, posKey),
                         LastNum(items, prioKey)))
    ELSE None

PlaceKeys == {"Id", "Pos", "Prio", "songid", "song", "nextsongid", "nextsong"}

\* every placement value of the sequence is one of the claim's numbers
PlaceValuesInRange(items) ==
    \A i \in 1..Len(items) :
        (items[i].ok /\ items[i].key \in PlaceKeys) => IsPlaceNum(items[i].val)

\* C1: queue-placement assembly is order independent.  Whatever the order in
\* which Id, Pos and Prio (songid and song, nextsongid and nextsong) arrive,
\* the placement has each sub-field equal to the value given for its key and
\* 0 for an absent key: a later key merges into the placement and resets
\* nothing.
C1_PlaceOrderIndependent ==
    (pc = "done" /\ PlaceValuesInRange(input)) =>
        /\ IsOk(ret)
        /\ op = "Song" => ret.val.place = MergedPlace(input, "Id", "Pos", "Prio")
        /\ op = "Status" =>
               /\ ret.val.song = MergedPlace(input, "songid", "song", "no key")
               /\ ret.val.nextsong = MergedPlace(input, "nextsongid", "nextsong", "no key")

\* Pos: 3 then Id: 7 has been decoded to place {id 7, pos 3, prio 0}
C1_Witness ==
    /\ op = "Song"
    /\ pc = "done"
    /\ input = <<Pair("Pos", <<"3">>), Pair("Id", <<"7">>)>>
    /\ ret = Ok([SongDefault EXCEPT !.place = Some(QueuePlace(7, 3, 0))])

----------------------------------------------------------------------------
(* Responses that hold error items *)

\* the error item of a stream that ends, or goes on, without a terminator
NotPair == ProtoError("NotPair", <<>>)

SongErrItems ==
    {ErrItem(ServerError), ErrItem(NotPair), Pair("file", <<"a">>), Pair("Id", <<"7">>),
     Pair("Id", <<"x">>), Pair("Artist", <<"b">>)}

StatusErrItems ==
    {ErrItem(ServerError), ErrItem(NotPair), Pair("volume", <<"5", "0">>),
     Pair("volume", <<"x">>), Pair("elapsed", <<"x">>), Pair("foo", <<"1">>)}

InitErr ==
    \E decoder \in {"Song", "Status"} :
        \E items \in SeqsOf(IF decoder = "Song" THEN SongErrItems ELSE StatusErrItems,
                            0, MaxPairs) :
            InitIter(decoder, items)

SpecErr == InitErr /\ [][NextIter]_vars

(* Claims about error items, checked under SpecErr *)

HasErrItem(items) == \E i \in 1..Len(items) : ~items[i].ok
FirstErrItem(items) ==
    CHOOSE i \in 1..Len(items) : ~items[i].ok /\ \A j \in 1..(i - 1) : items[j].ok

FromIter(decoder, items) ==
    IF decoder = "Song" THEN SongFromIter(items) ELSE StatusFromIter(items)

\* C5: a response with an error item is never decoded to an entity: the
\* decoder returns an error, and when the pairs before the first error item
\* decode cleanly that error is the first error item itself.
C5_ErrorItemNeverEntity ==
    (pc = "done" /\ HasErrItem(input)) =>
        /\ IsErr(ret)
        /\ IsOk(FromIter(op, SubSeq(input, 1, FirstErrItem(input) - 1)))
               => ret = Err(input[FirstErrItem(input)].err)

\* file: a followed by the ACK error has been decoded to that error
C5_Witness ==
    /\ op = "Song"
    /\ pc = "done"
    /\ input = <<Pair("file", <<"a">>), ErrItem(ServerError)>>
    /\ ret = Err(ServerError)

----------------------------------------------------------------------------
(* The Idle/Active controller (idle.rs, client.rs) *)

\* subsystems an idle response can name
Subsystems == {"database", "player", "mixer", "output"}

\* the caller-misuse error of a "noidle" with no idle wait outstanding
NotIdling == [kind |-> "Misuse", what |-> "NotIdling", arg |-> <<>>]

\* the changed-subsystem set an idle wait returns
Changed(subs) == Ok([changed |-> subs])
\* the unit success of an ordinary command
Done == Ok([unit |-> TRUE])

InitIdle ==
    /\ op = "Idle"
    /\ ctl = CtlStart
    /\ ret = NoRet
    /\ pc = "call"
    /\ s = <<>>
    /\ map = EmptyMap
    /\ input = <<>>
    /\ iter = <<>>
    /\ result = NoResult

\* an ordinary command: only in Active, where it runs to its response
Command ==
    /\ op = "Idle"
    /\ ctl.state = "Active"
    /\ ctl.n < MaxCommands
    /\ ctl' = [state |-> "Active", last |-> "command", n |-> ctl.n + 1]
    /\ ret' = Done
    /\ UNCHANGED <<op, pc, s, map, input, iter, result>>

\* "idle" is sent: the connection blocks reading, nothing is returned yet
IdleCmd ==
    /\ op = "Idle"
    /\ ctl.state = "Active"
    /\ ctl.n < MaxCommands
    /\ ctl' = [state |-> "Idle", last |-> "idle", n |-> ctl.n + 1]
    /\ ret' = NoRet
    /\ UNCHANGED <<op, pc, s, map, input, iter, result>>

\* the server pushes the response of the idle wait: the changed subsystems,
\* zero or more, then the terminator
ServerPush ==
    /\ op = "Idle"
    /\ ctl.state = "Idle"
    /\ \E subs \in SUBSET Subsystems :
           ret' = Changed(subs)
    /\ ctl' = [state |-> "Active", last |-> "push", n |-> ctl.n]
    /\ UNCHANGED <<op, pc, s, map, input, iter, result>>

\* "noidle" with the one issued while Active taken as done
NoidleCmdIgnored ==
    /\ op = "Idle"
    /\ ctl.n < MaxCommands
    /\ IF ctl.state = "Idle"
       THEN \E subs \in SUBSET Subsystems : ret' = Changed(subs)
       ELSE ret' = Done
    /\ ctl' = [state |-> "Active", last |-> "noidle", n |-> ctl.n + 1]
    /\ UNCHANGED <<op, pc, s, map, input, iter, result>>

\* "noidle": in Idle the server acknowledges with an empty success or with
\* a last event response, and the connection is Active again; in Active it
\* is rejected as caller misuse
NoidleCmd ==
    /\ op = "Idle"
    /\ ctl.n < MaxCommands
    /\ IF ctl.state = "Idle"
       THEN \E subs \in SUBSET Subsystems : ret' = Changed(subs)
       ELSE ret' = Err(NotIdling)
    /\ ctl' = [state |-> "Active", last |-> "noidle", n |-> ctl.n + 1]
    /\ UNCHANGED <<op, pc, s, map, input, iter, result>>

NextIdle == Command \/ IdleCmd \/ ServerPush \/ NoidleCmd

SpecIdle == InitIdle /\ [][NextIdle]_vars

(* Claims about the controller, checked under SpecIdle *)

\* C6: "noidle" is accepted only in Idle.  Issued in Active it is rejected
\* with the caller-misuse error and leaves the connection Active; it is
\* accepted only when issued in Idle; and the connection goes from Idle to
\* Active only on a pushed changed-subsystem response or an accepted
\* "noidle".
C6_NoidleOnlyInIdle ==
    [][ /\ (ctl.state = "Active" /\ ctl'.n = ctl.n + 1 /\ ctl'.last = "noidle")
               => (ret' = Err(NotIdling) /\ ctl'.state = "Active")
        /\ (ctl'.n = ctl.n + 1 /\ ctl'.last = "noidle" /\ IsOk(ret'))
               => ctl.state = "Idle"
        /\ (ctl.state = "Idle" /\ ctl'.state = "Active")
               => (ctl'.last \in {"push", "noidle"} /\ IsOk(ret')) ]_vars

\* a "noidle" issued in Active has been rejected as caller misuse
C6_Witness ==
    /\ op = "Idle"
    /\ ctl.state = "Active"
    /\ ctl.last = "noidle"
    /\ ret = Err(NotIdling)

----------------------------------------------------------------------------
(* Song responses: known and unknown keys *)

GoodTime == <<"2", "0", "1", "6", "-", "0", "1", "-", "0", "2", "T",
              "0", "3", ":", "0", "4", ":", "0", "5", "Z">>

SongItems ==
    {Pair("file", <<"a">>), Pair("Title", <<"t">>), Pair("Last-Modified", GoodTime),
     Pair("Name", <<"n">>), Pair("Time", <<"1", "0">>), Pair("Time", <<"x">>),
     Pair("Range", <<"1", "0", "-", "2", "0">>), Pair("Id", <<"7">>),
     Pair("Pos", <<"3">>), Pair("Prio", <<"2">>), Pair("Artist", <<"b">>),
     Pair("Artist", <<"c">>), Pair("Album", <<"d">>), Pair("title", <<"t">>)}

InitSong == \E items \in SeqsOf(SongItems, 0, MaxPairs) : InitIter("Song", items)

SpecSong == InitSong /\ [][NextSong]_vars

(* What it is for the value of a recognized field to convert *)

SongRecognized ==
    {"file", "Title", "Last-Modified", "Name", "Time", "Range", "Id", "Pos", "Prio"}

StatusRecognized ==
    {"volume", "repeat", "random", "single", "consume", "playlist", "playlistlength",
     "state", "songid", "song", "nextsongid", "nextsong", "time", "elapsed",
     "duration", "bitrate", "xfade", "audio", "updating_db", "error",
     "replay_gain_mode"}

\* a range text: empty, or "<start>-<end>" with each side empty or digits
IsRangeText(text) ==
    \/ text = <<>>
    \/ /\ CountSep(text, "-") = 1
       /\ \A i \in 1..Len(text) : (IsDigit(text[i]) \/ text[i] = "-")

\* a "time" text: "<elapsed>:<total>", two integers
IsTimeText(text) ==
    /\ CountSep(text, ":") = 1
    /\ ParseI64(SplitN2(text, ":")[1]).ok
    /\ ParseI64(SplitN2(text, ":")[2]).ok

SongConverts(k, v) ==
    CASE k = "Last-Modified" -> Strptime(v).ok
      [] k = "Time" -> ParseI64(v).ok
      [] k = "Range" -> IsRangeText(v)
      [] k \in {"Id", "Pos"} -> ParseU32(v).ok
      [] k = "Prio" -> ParseU8(v).ok
      [] OTHER -> TRUE

StatusConverts(k, v) ==
    CASE k = "volume" -> ParseI8(v).ok
      [] k \in {"repeat", "random", "single", "consume"} -> v \in {<<"0">>, <<"1">>}
      [] k \in {"playlist", "playlistlength", "songid", "song", "nextsongid",
                "nextsong", "bitrate", "updating_db"} -> ParseU32(v).ok
      [] k \in {"duration", "xfade"} -> ParseI64(v).ok
      [] k = "state" -> v \in {<<"s", "t", "o", "p">>, <<"p", "l", "a", "y">>,
                                <<"p", "a", "u", "s", "e">>}
      [] k = "time" -> IsTimeText(v)
      [] k = "audio" -> IsOk(AudioFromStr(v))
      [] k = "replay_gain_mode" ->
             v \in {<<"o", "f", "f">>, <<"t", "r", "a", "c", "k">>,
                    <<"a", "l", "b", "u", "m">>, <<"a", "u", "t", "o">>}
      [] OTHER -> TRUE

Converts(decoder, k, v) ==
    IF decoder = "Song" THEN SongConverts(k, v) ELSE StatusConverts(k, v)

\* the keys of the pairs of an item sequence
KeysOf(items) == {items[i].key : i \in {j \in 1..Len(items) : items[j].ok}}

(* Claims about unknown Song keys, checked under SpecSong *)

\* C7: Song::from_iter neither fails on nor drops an unrecognized key: when
\* the response has no error item and its recognized fields are well-formed,
\* decoding succeeds and the keys of tags are exactly the keys of the
\* response that are not recognized Song keys.
C7_UnknownSongKeysAreTags ==
    (/\ op = "Song"
     /\ pc = "done"
     /\ ~HasErrItem(input)
     /\ \A i \in 1..Len(input) : SongConverts(input[i].key, input[i].val)) =>
        /\ IsOk(ret)
        /\ DOMAIN ret.val.tags = KeysOf(input) \ SongRecognized

\* Artist: b then Title: t has been decoded to a song with the one tag Artist
C7_Witness ==
    /\ op = "Song"
    /\ pc = "done"
    /\ input = <<Pair("Artist", <<"b">>), Pair("Title", <<"t">>)>>
    /\ IsOk(ret)
    /\ DOMAIN ret.val.tags = {"Artist"}

----------------------------------------------------------------------------
(* Status responses: elapsed, unknown keys, and an error item *)

StatusItems ==
    {Pair("elapsed", <<"1", ".", "5">>), Pair("elapsed", <<"x">>), Pair("elapsed", <<>>),
     Pair("volume", <<"5", "0">>), Pair("volume", <<"x">>),
     Pair("state", <<"p", "l", "a", "y">>), Pair("songid", <<"7">>),
     Pair("time", <<"1", ":", "2", "0">>), Pair("repeat", <<"1">>),
     Pair("foo", <<"1">>), Pair("mixrampdb", <<"0", ".", "0">>),
     Pair("Artist", <<"b">>), ErrItem(ServerError)}

InitStatus == \E items \in SeqsOf(StatusItems, 0, MaxPairs) : InitIter("Status", items)

SpecStatus == InitStatus /\ [][NextStatus]_vars

(* Claims about elapsed and unknown Status keys, checked under SpecStatus *)

\* the items of a sequence that are not pairs of the key k
RECURSIVE WithoutKey(_, _)
WithoutKey(items, k) ==
    IF items = <<>> THEN <<>>
    ELSE IF Head(items).ok /\ Head(items).key = k THEN WithoutKey(Tail(items), k)
    ELSE <<Head(items)>> \o WithoutKey(Tail(items), k)

\* the items of a sequence that are not pairs of a key outside K
RECURSIVE OnlyKeys(_, _)
OnlyKeys(items, K) ==
    IF items = <<>> THEN <<>>
    ELSE IF Head(items).ok /\ Head(items).key \notin K THEN OnlyKeys(Tail(items), K)
    ELSE <<Head(items)>> \o OnlyKeys(Tail(items), K)

\* C9: a malformed elapsed value never fails a Status decode.  When the
\* response without its elapsed pairs decodes, the response decodes too,
\* every field but elapsed is as in that decode, and elapsed is None when
\* the last elapsed value does not parse.
C9_ElapsedTolerated ==
    (/\ op = "Status"
     /\ pc = "done"
     /\ Occurs(input, "elapsed")
     /\ IsOk(StatusFromIter(WithoutKey(input, "elapsed")))) =>
        /\ IsOk(ret)
        /\ [ret.val EXCEPT !.elapsed = None] = StatusFromIter(WithoutKey(input, "elapsed")).val
        /\ ~ParseF32Millis(input[Last(Occurrences(input, "elapsed"))].val).ok
               => ret.val.elapsed = None
        /\ ParseF32Millis(input[Last(Occurrences(input, "elapsed"))].val).ok
               => IsSome(ret.val.elapsed)

\* elapsed: 1.5, volume: 50, elapsed: x has been decoded to a Status with
\* volume 50 and no elapsed time
C9_Witness ==
    /\ op = "Status"
    /\ pc = "done"
    /\ input = <<Pair("elapsed", <<"1", ".", "5">>), Pair("volume", <<"5", "0">>),
                 Pair("elapsed", <<"x">>)>>
    /\ ret = Ok([StatusDefault EXCEPT !.volume = 50])

\* C10: unrecognized keys leave a Status untouched: the decode returns what
\* it returns for the response with every pair of an unrecognized key
\* removed, the same Status or the same error.
C10_UnknownStatusKeysIgnored ==
    (op = "Status" /\ pc = "done") =>
        ret = StatusFromIter(OnlyKeys(input, StatusRecognized))

\* foo: 1, volume: 50, Artist: b has been decoded to the Status of volume: 50
C10_Witness ==
    /\ op = "Status"
    /\ pc = "done"
    /\ input = <<Pair("foo", <<"1">>), Pair("volume", <<"5", "0">>),
                 Pair("Artist", <<"b">>)>>
    /\ ret = Ok([StatusDefault EXCEPT !.volume = 50])

----------------------------------------------------------------------------
(* Responses drawn from every recognized field, well-formed and malformed *)

Bad == <<"x">>

SongFieldItems ==
    {Pair("file", <<"a">>), Pair("Title", <<"t">>), Pair("Name", <<"n">>),
     Pair("Last-Modified", GoodTime), Pair("Last-Modified", Bad),
     Pair("Time", <<"1", "0">>), Pair("Time", Bad),
     Pair("Range", <<"1", "0", "-", "2", "0">>), Pair("Range", Bad),
     Pair("Id", <<"7">>), Pair("Id", Bad),
     Pair("Pos", <<"3">>), Pair("Pos", Bad),
     Pair("Prio", <<"2">>), Pair("Prio", Bad),
     Pair("Artist", <<"b">>)}

StatusFieldItems ==
    {Pair("volume", <<"5", "0">>), Pair("volume", Bad),
     Pair("repeat", <<"1">>), Pair("repeat", Bad),
     Pair("random", <<"1">>), Pair("random", Bad),
     Pair("single", <<"0">>), Pair("single", Bad),
     Pair("consume", <<"1">>), Pair("consume", Bad),
     Pair("playlist", <<"5">>), Pair("playlist", Bad),
     Pair("playlistlength", <<"9">>), Pair("playlistlength", Bad),
     Pair("state", <<"p", "l", "a", "y">>), Pair("state", Bad),
     Pair("songid", <<"7">>), Pair("songid", Bad),
     Pair("song", <<"3">>), Pair("song", Bad),
     Pair("nextsongid", <<"8">>), Pair("nextsongid", Bad),
     Pair("nextsong", <<"4">>), Pair("nextsong", Bad),
     Pair("time", <<"1", ":", "2", "0">>), Pair("time", Bad), Pair("time", <<"1", "0">>),
     Pair("elapsed", <<"1", ".", "5">>), Pair("elapsed", Bad),
     Pair("duration", <<"2", "0">>), Pair("duration", Bad),
     Pair("bitrate", <<"1", "2", "8">>), Pair("bitrate", Bad),
     Pair("xfade", <<"5">>), Pair("xfade", Bad),
     Pair("audio", <<"4", "4", "1", ":", "1", "6", ":", "2">>), Pair("audio", Bad),
     Pair("updating_db", <<"1">>), Pair("updating_db", Bad),
     Pair("error", <<"e">>),
     Pair("replay_gain_mode", <<"o", "f", "f">>), Pair("replay_gain_mode", Bad),
     Pair("foo", <<"1">>)}

InitFields ==
    \E decoder \in {"Song", "Status"} :
        \E items \in SeqsOf(IF decoder = "Song" THEN SongFieldItems ELSE StatusFieldItems,
                            0, MaxFieldPairs) :
            InitIter(decoder, items)

SpecFields == InitFields /\ [][NextIter]_vars

(* Claims about malformed fields, checked under SpecFields *)

Recognized(decoder) == IF decoder = "Song" THEN SongRecognized ELSE StatusRecognized

\* the response has a recognized field, other than elapsed, whose value does
\* not convert
HasMalformedField(decoder, items) ==
    \E i \in 1..Len(items) :
        /\ items[i].ok
        /\ items[i].key \in Recognized(decoder) \ {"elapsed"}
        /\ ~Converts(decoder, items[i].key, items[i].val)

\* C8 (as stated): a recognized field other than elapsed whose value does not
\* convert makes the whole decode return a parse error; no entity is
\* returned.
C8_MalformedFieldIsFatal ==
    (pc = "done" /\ HasMalformedField(op, input)) =>
        (IsErr(ret) /\ ret.val.kind = "Parse")

----------------------------------------------------------------------------
(* What a decode leaves unread in the stream *)

\* a response as the grammar parser yields it: line pairs, then the
\* terminator.  OK ends the sequence; an ACK is its last item, an error item.
WellFramed(items) == \A i \in 1..Len(items) : ~items[i].ok => i = Len(items)

\* the terminator of the response has been taken from the stream: an ACK
\* when its error item has been taken, an OK when the loop has asked for an
\* item past the last pair, which only the return of Ok(result) follows
TerminatorConsumed ==
    IF input # <<>> /\ ~input[Len(input)].ok
    THEN iter = <<>>
    ELSE pc = "done" /\ IsOk(ret)

(* Claims about draining, checked under SpecErr *)

\* C11 (as stated): a decode always drains its response: when from_iter has
\* returned, with an entity or with an error, every item of the response up
\* to and including its terminator has been consumed.
C11_DecodeDrains ==
    (pc = "done" /\ WellFramed(input)) => (iter = <<>> /\ TerminatorConsumed)

----------------------------------------------------------------------------
(* Status responses with volume values in and out of 0..100 *)

StatusVolumeItems ==
    {Pair("volume", <<"0">>), Pair("volume", <<"5", "0">>),
     Pair("volume", <<"1", "0", "0">>), Pair("volume", <<"-", "1">>),
     Pair("volume", <<"1", "0", "1">>), Pair("volume", <<"1", "2", "7">>),
     Pair("volume", <<"1", "2", "8">>), Pair("volume", <<"-", "5">>),
     Pair("volume", <<"x">>), Pair("state", <<"p", "l", "a", "y">>),
     Pair("foo", <<"1">>)}

InitVolume ==
    \E items \in SeqsOf(StatusVolumeItems, 0, MaxPairs) : InitIter("Status", items)

SpecVolume == InitVolume /\ [][NextStatus]_vars

(* Claims about volume, checked under SpecVolume *)

\* C12 (as stated): every Status that Status::from_iter returns has volume
\* in -1..100, whatever volume values the response holds.
C12_VolumeInRange ==
    (op = "Status" /\ pc = "done" /\ IsOk(ret)) => ret.val.volume \in (0 - 1)..100

====
